---- MODULE Spec2Model ----
(***************************************************************************)
(* Model of the thorvg.web Lottie players.                                 *)
(*                                                                         *)
(*   src/src/lottie-player.ts         the in-process player (LottiePlayer) *)
(*   src/src/worker/lottie-worker.ts  the worker script and the            *)
(*                                    worker-delegated player              *)
(*                                                                         *)
(* JavaScript runs one task at a time.  A task (a timer callback, an       *)
(* animation-frame callback, a delivered message, the settling of a fetch) *)
(* runs its synchronous code and then the microtask queue is drained in    *)
(* FIFO order before the next task starts.  `await` of an already settled  *)
(* promise suspends the coroutine for one microtask.  The model keeps the  *)
(* microtask queue (micro) and the bag of pending tasks (tasks) explicit:  *)
(* task actions are enabled only while micro is empty; calls made by the   *)
(* page's script (load, play, ...) may happen wherever script runs.        *)
(*                                                                         *)
(* Time is counted in frame periods of the loaded animation at speed 1, so *)
(* duration() = totalFrame() in these units and the frame arithmetic of    *)
(* the clock is exact on integers.  The program reads the wall clock only  *)
(* as the difference Date.now() - _beginTime, and only while Playing; the  *)
(* model keeps that difference (sinceBegin) and lets time pass only while  *)
(* it is read.                                                             *)
(***************************************************************************)
EXTENDS Integers, Sequences, FiniteSets, Bags, TLC

\* ------------------------------------------------------------------ bounds
NumPlayers == 2     \* in-process players sharing one module and InitStatus
MaxTime == 2        \* the clock stops this long after the begin timestamp
MaxPolls == 2       \* _module.init() calls one player may make
MaxRaf == 2         \* _animLoop chains one player may have alive
MaxSeek == 1        \* largest frame the page seeks to
MaxCount == 2       \* largest repeat count a player is configured with
MaxLegs == 5        \* passes of the clock recorded for one playthrough

Players == 1..NumPlayers

\* ------------------------------------------------------------ enumerations
SW == "sw"
WG == "wg"
GL == "gl"
Renderers == {SW, WG, GL}

IDLE == "idle"
FAILED == "failed"
REQUESTED == "requested"
INITIALIZED == "initialized"

Destroyed == "destroyed"
Error == "error"
Loading == "loading"
Paused == "paused"
Playing == "playing"
Stopped == "stopped"
Frozen == "frozen"

Bounce == "bounce"
Normal == "normal"

\* A value that is not a number: x / 0 * 0 in _update
NaN == 0 - 1000

\* ---------------------------------------------------------------- sources
\* What the page hands to load(): a Lottie object, a string holding the JSON
\* text of a Lottie, and a string holding a locator.
NoSrc == "none"
LoadInputs == { <<"object", "json">>, <<"text", "json">>, <<"url", "json">> }

\* Whether JSON.parse accepts a string source
ParsesAsJSON(src) == src = "text"

\* The bytes _parseSrc and loadLottieData hand to the engine.  An object is
\* stringified and encoded; the body of a fetched locator is stringified and
\* encoded; a string that parses as JSON is replaced by the parsed object,
\* which TextEncoder.encode() converts to the string "[object Object]".
Encode(src) == CASE src = "object" -> "lottie"
                 [] src = "url" -> "lottie-url"
                 [] OTHER -> "[object Object]"

\* _TVG.load(): the engine accepts the bytes of a Lottie
EngineLoads(bytes) == bytes \in {"lottie", "lottie-url"}

\* totalFrame() of the engine after it accepted the bytes
FramesOf(bytes) == CASE bytes = "lottie" -> 2
                     [] bytes = "lottie-url" -> 1
                     [] OTHER -> 0

VARIABLES
    moduleRequested,  \* _moduleRequested
    moduleLoaded,     \* _module is set
    initStatus,       \* _initStatus
    pl,               \* the in-process players
    micro,            \* microtask queue: continuations, FIFO
    tasks,            \* bag of pending tasks (timers, Module(), fetch)
    op,               \* the operation the last step performed
    wp,               \* the worker-delegated player (primary context)
    wk,               \* the globals of the worker script
    wtasks,           \* bag of pending tasks of the worker (Module(), fetch)
    toWorker,         \* commands posted to the worker, FIFO
    toMain            \* responses posted to the primary context, FIFO

pvars == <<moduleRequested, moduleLoaded, initStatus, pl, micro, tasks>>
wvars == <<wp, wk, wtasks, toWorker, toMain>>

\* ----------------------------------------------------------- continuations
Cont(k, p, engine, src, ft, acc) ==
    [k |-> k, p |-> p, engine |-> engine, src |-> src, ft |-> ft, acc |-> acc]

NoParent == [src |-> NoSrc, ft |-> "json"]

\* The part of the state the handlers of the in-process player work on.  The
\* records of the last step are dropped: the events it emitted and, for a
\* player that is neither Playing nor Frozen, the passes of its last
\* playthrough.
World == [mr |-> moduleRequested, ml |-> moduleLoaded, st |-> initStatus,
          pl |-> [q \in Players |->
                    [pl[q] EXCEPT !.ev = <<>>,
                                  !.legs = IF pl[q].currentState \in {Playing, Frozen}
                                           THEN @ ELSE << >>]],
          mq |-> micro, tk |-> tasks]

Queue(w, c) == [w EXCEPT !.mq = Append(@, c)]
AddTask(w, c) == [w EXCEPT !.tk = @ (+) SetToBag({c})]
DelTask(w, c) == [w EXCEPT !.tk = @ (-) SetToBag({c})]

\* ------------------------------------------------- LottiePlayer: operations
Emit(s, e) == [s EXCEPT !.ev = Append(@, e)]

IsAnimation(s) == s.fileType \in {"json", "lot"}

\* play() dereferences this._TVG after the file-type guard
PlayThrows(s) == IsAnimation(s) /\ s.tvg # "live"

\* play() without `if (this.currentState === PlayerState.Playing) return`
Play_noPlayingGuard(s) ==
    IF ~IsAnimation(s) \/ s.tvg # "live" THEN s
    ELSE LET s1 == [s EXCEPT !.totalFrame = s.tvgTotal] IN
         IF s1.totalFrame < 1 THEN s1
         ELSE LET s2 == [s1 EXCEPT !.sinceBegin = 0] IN
              IF s2.observable
              THEN [s2 EXCEPT !.currentState = Playing, !.raf = @ + 1]
              ELSE [s2 EXCEPT !.currentState = Frozen]

Play(s) ==
    IF ~IsAnimation(s) \/ s.tvg # "live" THEN s
    ELSE LET s1 == [s EXCEPT !.totalFrame = s.tvgTotal] IN
         IF s1.totalFrame < 1 THEN s1
         ELSE LET s2 == [s1 EXCEPT !.sinceBegin = 0] IN
              IF s2.currentState = Playing THEN s2
              ELSE IF s2.observable
                   THEN [s2 EXCEPT !.currentState = Playing, !.raf = @ + 1]
                   ELSE [s2 EXCEPT !.currentState = Frozen]

Pause(s) == Emit([s EXCEPT !.currentState = Paused], "pause")

Frame(s, curFrame) == [Pause(s) EXCEPT !.currentFrame = curFrame]

\* seek(): _frame(), then _update() which returns false because _frame() has
\* just paused the player, then _render()
Seek(s, frame) == Frame(s, frame)

Stop(s) ==
    Emit(Seek([s EXCEPT !.currentState = Stopped, !.currentFrame = 0,
                        !.counter = 1], 0), "stop")

Freeze(s) == Emit([s EXCEPT !.currentState = Frozen], "freeze")

\* _observerCallback without the play() of a frozen player
ObserverCallback_noResume(s, isIntersecting) ==
    LET s1 == [s EXCEPT !.observable = isIntersecting] IN
    IF isIntersecting THEN s1
    ELSE IF s1.currentState = Playing THEN Emit(Freeze(s1), "freeze") ELSE s1

ObserverCallback(s, isIntersecting) ==
    LET s1 == [s EXCEPT !.observable = isIntersecting] IN
    IF isIntersecting
    THEN IF s1.currentState = Frozen THEN Play(s1) ELSE s1
    ELSE IF s1.currentState = Playing THEN Emit(Freeze(s1), "freeze") ELSE s1

Destroy(s) ==
    IF s.tvg # "live" THEN s
    ELSE Emit([s EXCEPT !.tvg = "null", !.currentState = Destroyed,
                        !.observer = FALSE], "destroyed")

\* The frame _update() derives from the wall clock
ClockFrame(s) ==
    IF s.tvgTotal = 0 THEN NaN
    ELSE LET f == (s.sinceBegin * s.totalFrame * s.speed) \div s.tvgTotal
         IN IF s.direction = -1 THEN s.totalFrame - f ELSE f

AtBoundary(s, f) ==
    /\ f # NaN
    /\ \/ s.direction = 1 /\ f >= s.totalFrame
       \/ s.direction = -1 /\ f <= 0

TotalCount(s) ==
    IF s.count # 0 THEN (IF s.mode = Bounce THEN s.count * 2 ELSE s.count) ELSE 0

\* _update() with `this.loop ||` dropped from the test at the boundary: only
\* the repeat budget keeps the clock going
Update_noLoop(s) ==
    IF s.currentState # Playing THEN [s |-> s, r |-> "false"]
    ELSE LET f == ClockFrame(s)
             s0 == [s EXCEPT !.currentFrame = f]
             s1 == IF AtBoundary(s0, f)
                   THEN [s0 EXCEPT !.legs = Append(@, s.direction)] ELSE s0
         IN IF AtBoundary(s1, f)
            THEN IF TotalCount(s1) # 0 /\ s1.counter < TotalCount(s1)
                 THEN LET d == IF s1.direction = 1 THEN -1 ELSE 1
                          s2 == IF s1.mode = Bounce
                                THEN [s1 EXCEPT !.direction = d,
                                        !.currentFrame = IF d = 1 THEN 0 ELSE s1.totalFrame]
                                ELSE s1
                          s3 == IF s2.count # 0 THEN [s2 EXCEPT !.counter = @ + 1] ELSE s2
                      IN [s |-> s3, r |-> "wait"]
                 ELSE [s |-> Emit([Emit(s1, "complete") EXCEPT !.currentState = Stopped], "frame"),
                       r |-> "frame"]
            ELSE [s |-> Emit(s1, "frame"), r |-> "frame"]

\* The synchronous part of _update(): r = "false" (not playing), "wait" (the
\* clock loops and sleeps for the intermission) or "frame" (a frame was
\* handed to the engine)
Update(s) ==
    IF s.currentState # Playing THEN [s |-> s, r |-> "false"]
    ELSE LET f == ClockFrame(s)
             s0 == [s EXCEPT !.currentFrame = f]
             s1 == IF AtBoundary(s0, f)
                   THEN [s0 EXCEPT !.legs = Append(@, s.direction)] ELSE s0
         IN IF AtBoundary(s1, f)
            THEN IF s1.loop \/ (TotalCount(s1) # 0 /\ s1.counter < TotalCount(s1))
                 THEN LET d == IF s1.direction = 1 THEN -1 ELSE 1
                          s2 == IF s1.mode = Bounce
                                THEN [s1 EXCEPT !.direction = d,
                                        !.currentFrame = IF d = 1 THEN 0 ELSE s1.totalFrame]
                                ELSE s1
                          s3 == IF s2.count # 0 THEN [s2 EXCEPT !.counter = @ + 1] ELSE s2
                      IN [s |-> s3, r |-> "wait"]
                 ELSE [s |-> Emit([Emit(s1, "complete") EXCEPT !.currentState = Stopped], "frame"),
                       r |-> "frame"]
            ELSE [s |-> Emit(s1, "frame"), r |-> "frame"]

\* ------------------------------------------------ constructor and firstUpdated
\* The fields of a LottiePlayer after firstUpdated(): the property
\* initialisers, the canvas, the observer and the interval that calls _init().
\* fb, calls, waited, saw, wgFailed, wgReady, initErr, loads, made (the
\* engine animation instances created) and legs (the
\* directions of the passes the clock has finished since the player became
\* Playing or Frozen)
\* record what the player did; the code does not read them.
NewPlayer(renderer, src, autoPlay, loop, count, mode, direction) ==
    [renderer |-> renderer, src |-> src, fileType |-> "json",
     autoPlay |-> autoPlay, loop |-> loop, count |-> count, mode |-> mode,
     direction |-> direction, speed |-> 1,
     totalFrame |-> 0, currentFrame |-> 0, currentState |-> Loading,
     sinceBegin |-> 0, counter |-> 1,
     timer |-> TRUE, observer |-> TRUE, observable |-> FALSE,
     tvg |-> "undef", tvgTotal |-> 0, actual |-> "none", raf |-> 0,
     ev |-> <<>>,
     fb |-> <<>>, calls |-> 0, waited |-> FALSE, saw |-> "none",
     wgFailed |-> FALSE, wgReady |-> FALSE, initErr |-> FALSE, loads |-> 0,
     made |-> 0, legs |-> << >>]

\* -------------------------------------------------------------- _initModule
Parent(c) == [src |-> c.src, ft |-> c.ft]

\* An async function returns: the coroutine awaiting it (load(), if any) is
\* resumed by a microtask
Return(w, p, par) ==
    IF par.src = NoSrc THEN w
    ELSE Queue(w, Cont("load_afterInit", p, SW, par.src, par.ft, FALSE))

\* One pass of the while (true) loop of _initModule: res = _module.init()
CallInit(w, p, res, c) ==
    LET w1 == [w EXCEPT !.pl[p].calls = @ + 1] IN
    CASE res = 0 -> Queue([w1 EXCEPT !.st = INITIALIZED, !.pl[p].wgFailed = FALSE,
                                     !.pl[p].wgReady = TRUE], c)
      [] res = 1 -> Queue([w1 EXCEPT !.st = FAILED, !.pl[p].wgFailed = TRUE], c)
      [] OTHER -> AddTask(w1, [c EXCEPT !.k = "im_poll"])

\* _initModule without `if (_initStatus === InitStatus.INITIALIZED) return`
AfterWait_noAdopt(w, p, res, c) ==
    CallInit([w EXCEPT !.st = REQUESTED], p, res, c)

\* _initModule after its wait loop has ended
AfterWait(w, p, res, c) ==
    IF w.st = INITIALIZED THEN Queue(w, c)
    ELSE CallInit([w EXCEPT !.st = REQUESTED], p, res, c)

\* _initModule without its wait loop
InitModule_noWait(w, p, engine, res, c) ==
    IF engine # WG THEN Queue(w, c) ELSE AfterWait(w, p, res, c)

InitModule(w, p, engine, res, c) ==
    IF engine # WG THEN Queue(w, c)
    ELSE IF w.st = REQUESTED
         THEN AddTask([w EXCEPT !.pl[p].waited = TRUE], [c EXCEPT !.k = "im_wait"])
         ELSE AfterWait(w, p, res, c)

\* ------------------------------------------------------- LottiePlayer._init
\* _init() without `if (!this._timer) return`
InitBody_noGate(w, p, par, res) ==
    LET engine == w.pl[p].renderer IN
    InitModule([w EXCEPT !.pl[p].timer = FALSE], p, engine, res,
               Cont("init_after", p, engine, par.src, par.ft, FALSE))

\* _init() once _module is set
InitBody(w, p, par, res) ==
    IF ~w.pl[p].timer THEN Return(w, p, par)
    ELSE LET engine == w.pl[p].renderer IN
         InitModule([w EXCEPT !.pl[p].timer = FALSE], p, engine, res,
                    Cont("init_after", p, engine, par.src, par.ft, FALSE))

InitStart(w, p, par, res) ==
    IF w.mr /\ ~w.ml THEN AddTask(w, Cont("init_wait", p, SW, par.src, par.ft, FALSE))
    ELSE IF ~w.ml
         THEN AddTask([w EXCEPT !.mr = TRUE], Cont("module", p, SW, par.src, par.ft, FALSE))
         ELSE InitBody(w, p, par, res)

\* load() up to its first await: the call of _init()
Load(w, p, src, ft, res) ==
    InitStart([w EXCEPT !.pl[p].loads = @ + 1], p, [src |-> src, ft |-> ft], res)

NextTier(engine) == IF engine = WG THEN GL ELSE SW

\* _init() from the last `success = ...` to its end
InitFinish(w, p, engine, par, res) ==
    LET orig == w.pl[p].renderer IN
    IF w.st = FAILED
    THEN Return([w EXCEPT !.pl[p] = Emit([@ EXCEPT !.currentState = Error,
                                                   !.initErr = TRUE], "error")], p, par)
    ELSE LET w1 == IF engine # orig
                   THEN [w EXCEPT !.pl[p] =
                           Emit([@ EXCEPT !.fb = Append(@, <<orig, engine>>)],
                                "rendererFallback")]
                   ELSE w
             w2 == [w1 EXCEPT !.pl[p].tvg = "live", !.pl[p].actual = engine,
                              !.pl[p].made = @ + 1]
             w3 == IF w2.pl[p].src # NoSrc
                   THEN Load(w2, p, w2.pl[p].src, w2.pl[p].fileType, res)
                   ELSE w2
         IN Return(w3, p, par)

\* _init() resumed after an `await _initModule(engine)`
InitAfter(w, p, engine, par, res) ==
    IF w.st = FAILED /\ engine # SW
    THEN InitModule([w EXCEPT !.st = IDLE], p, NextTier(engine), res,
                    Cont("init_after", p, NextTier(engine), par.src, par.ft, FALSE))
    ELSE InitFinish(w, p, engine, par, res)

\* --------------------------------------------------------- LottiePlayer.load
\* the catch clause of load() without `this.currentState = PlayerState.Error`
LoadCatch_noState(s) == Emit([s EXCEPT !.loads = @ - 1], "error")

\* the catch clause of load()
LoadCatch(s) == Emit([s EXCEPT !.currentState = Error, !.loads = @ - 1], "error")

\* _parseSrc that takes every string for a URL, without trying JSON.parse
ParseSrc_fetchFirst(w, c) ==
    IF c.src = "object"
    THEN Queue(w, [c EXCEPT !.k = "load_parsed"])
    ELSE AddTask(w, [c EXCEPT !.k = "fetch"])

\* _parseSrc: an object and a string that parses as JSON need no fetch
ParseSrc(w, c) ==
    IF c.src = "object" \/ ParsesAsJSON(c.src)
    THEN Queue(w, [c EXCEPT !.k = "load_parsed"])
    ELSE AddTask(w, [c EXCEPT !.k = "fetch"])

\* load() from the Ready event on, with _loadBytes
LoadBytes(s, src, ft) ==
    LET s1 == [Emit(s, "ready") EXCEPT !.fileType = ft] IN
    IF s1.tvg # "live" THEN LoadCatch(s1)
    ELSE IF ~EngineLoads(Encode(src)) THEN LoadCatch([s1 EXCEPT !.tvgTotal = 0])
    ELSE LET s2 == Emit([s1 EXCEPT !.tvgTotal = FramesOf(Encode(src)),
                                   !.loads = @ - 1], "load")
         IN IF s2.autoPlay THEN Play(s2) ELSE s2

\* ------------------------------------------------------------------ actions
\* the last operation; pre is the state play() or the observer callback found
\* the player in
Op(n, p) == [n |-> n, p |-> p,
             pre |-> IF n \in {"play", "observer"} THEN pl[p].currentState
                     ELSE "none"]

\* results _module.init() may give: 0 ready, 1 failed, 2 still pending
InitResults(p) == IF pl[p].calls + 1 >= MaxPolls THEN {0, 1} ELSE {0, 1, 2}

\* _animLoop chains of p: callbacks requested and coroutines suspended
Suspended(w, p) ==
    {c \in BagToSet(w.tk) : c.p = p /\ c.k = "update_wait"}

Chains(w, p) ==
    w.pl[p].raf
    + BagCardinality([c \in Suspended(w, p) |-> w.tk[c]])
    + Cardinality({i \in 1..Len(w.mq) : w.mq[i].p = p /\ w.mq[i].k = "anim_after"})

Commit(w) ==
    /\ \A q \in Players : Chains(w, q) <= MaxRaf
    /\ \A q \in Players : Len(w.pl[q].legs) <= MaxLegs
    /\ moduleRequested' = w.mr
    /\ moduleLoaded' = w.ml
    /\ initStatus' = w.st
    /\ pl' = w.pl
    /\ micro' = w.mq
    /\ tasks' = w.tk

PlayerStep(w, o) ==
    /\ Commit(w)
    /\ op' = o
    /\ UNCHANGED wvars

IdleScript == micro = <<>>

\* Script of the page runs when a task of the page starts and goes on after
\* each call the page makes: calls made one after the other run before the
\* microtasks the first of them queued.
PageCalls == {"load", "play", "pause", "stop", "seek", "freeze", "destroy"}
InScript == IdleScript \/ op.n \in PageCalls

\* the interval set by firstUpdated() calls _init()
TimerInit(p) ==
    /\ IdleScript
    /\ pl[p].timer
    /\ ~(moduleRequested /\ ~moduleLoaded)
    /\ \E res \in InitResults(p) :
         PlayerStep(InitStart(World, p, NoParent, res), Op("init", p))

\* Module() settles
TaskModule(c, ok) ==
    /\ IdleScript
    /\ c \in BagToSet(tasks) /\ c.k = "module"
    /\ LET w == DelTask(World, c) IN
       IF ok
       THEN \E res \in InitResults(c.p) :
              PlayerStep(InitBody([w EXCEPT !.ml = TRUE], c.p, Parent(c), res),
                         Op("module", c.p))
       ELSE PlayerStep(IF c.src = NoSrc THEN w
                       ELSE [w EXCEPT !.pl[c.p] = LoadCatch(@)], Op("module", c.p))

\* an _init() called by load() leaves `while (!_module)`
TaskInitWait(c) ==
    /\ IdleScript
    /\ c \in BagToSet(tasks) /\ c.k = "init_wait"
    /\ moduleLoaded
    /\ \E res \in InitResults(c.p) :
         PlayerStep(InitBody(DelTask(World, c), c.p, Parent(c), res), Op("init", c.p))

\* _initModule leaves `while (_initStatus === InitStatus.REQUESTED)`
TaskImWait(c) ==
    /\ IdleScript
    /\ c \in BagToSet(tasks) /\ c.k = "im_wait"
    /\ initStatus # REQUESTED
    /\ \E res \in InitResults(c.p) :
         PlayerStep(AfterWait([DelTask(World, c) EXCEPT !.pl[c.p].saw = initStatus],
                              c.p, res, [c EXCEPT !.k = "init_after"]),
                    Op("initModule", c.p))

\* _initModule polls _module.init() again after _wait(100)
TaskImPoll(c) ==
    /\ IdleScript
    /\ c \in BagToSet(tasks) /\ c.k = "im_poll"
    /\ \E res \in InitResults(c.p) :
         PlayerStep(CallInit(DelTask(World, c), c.p, res, [c EXCEPT !.k = "init_after"]),
                    Op("initModule", c.p))

\* _init() resumes after `await _initModule(engine)`
MicroInitAfter ==
    /\ micro # <<>> /\ Head(micro).k = "init_after"
    /\ LET c == Head(micro) IN
       \E res \in InitResults(c.p) :
         PlayerStep(InitAfter([World EXCEPT !.mq = Tail(@)], c.p, c.engine, Parent(c), res),
                    Op("init", c.p))

\* the page calls load(), once its previous load() on the player has settled
UserLoad(p, inputs) ==
    /\ InScript
    /\ pl[p].loads = 0
    /\ \E in \in inputs, res \in InitResults(p) :
         PlayerStep(Load(World, p, in[1], in[2], res), Op("load", p))

\* load() resumes after `await this._init()`
MicroLoadAfterInit ==
    /\ micro # <<>> /\ Head(micro).k = "load_afterInit"
    /\ LET c == Head(micro) IN
       PlayerStep(ParseSrc([World EXCEPT !.mq = Tail(@)], c), Op("parseSrc", c.p))

\* the fetch of _parseLottieFromURL or _parseImageFromURL settles
TaskFetch(c, ok) ==
    /\ IdleScript
    /\ c \in BagToSet(tasks) /\ c.k = "fetch"
    /\ LET w == DelTask(World, c) IN
       PlayerStep(IF ok THEN Queue(w, [c EXCEPT !.k = "load_parsed"])
                  ELSE [w EXCEPT !.pl[c.p] = LoadCatch(@)], Op("fetch", c.p))

\* load() resumes after `await _parseSrc(src, fileType)`
MicroLoadParsed ==
    /\ micro # <<>> /\ Head(micro).k = "load_parsed"
    /\ LET c == Head(micro) IN
       PlayerStep([World EXCEPT !.mq = Tail(@),
                                !.pl[c.p] = LoadBytes(@, c.src, c.ft)],
                  Op("loadBytes", c.p))

\* the animation-frame callback: _animLoop up to `await this._update()`
AnimLoop(p) ==
    /\ IdleScript
    /\ pl[p].raf > 0
    /\ LET w == [World EXCEPT !.pl[p].raf = @ - 1]
           u == Update(w.pl[p])
           w1 == [w EXCEPT !.pl[p] = u.s]
       IN IF w.pl[p].tvg # "live" \/ u.r = "false"
          THEN PlayerStep(w, Op("animLoop", p))
          ELSE IF u.r = "wait"
          THEN PlayerStep(AddTask(w1, Cont("update_wait", p, SW, NoSrc, "json", FALSE)),
                          Op("animLoop", p))
          ELSE \E acc \in BOOLEAN :
                 PlayerStep(Queue(w1, Cont("anim_after", p, SW, NoSrc, "json", acc)),
                            Op("animLoop", p))

\* _update() resumes after `await _wait(this.intermission)`: play(), return true
TaskUpdateWait(c) ==
    /\ IdleScript
    /\ c \in BagToSet(tasks) /\ c.k = "update_wait"
    /\ LET w == DelTask(World, c) IN
       IF PlayThrows(w.pl[c.p])
       THEN PlayerStep(w, Op("intermission", c.p))
       ELSE PlayerStep(Queue([w EXCEPT !.pl[c.p] = Play(@)],
                             [c EXCEPT !.k = "anim_after", !.acc = TRUE]),
                       Op("intermission", c.p))

\* _animLoop resumes after `await this._update()`: _render() and the next
\* requestAnimationFrame; _render() throws when the engine instance is gone
MicroAnimAfter ==
    /\ micro # <<>> /\ Head(micro).k = "anim_after"
    /\ LET c == Head(micro)
           w == [World EXCEPT !.mq = Tail(@)]
       IN PlayerStep(IF c.acc /\ w.pl[c.p].tvg = "live"
                     THEN [w EXCEPT !.pl[c.p].raf = @ + 1] ELSE w,
                     Op("render", c.p))

\* Calls of the page's script.  The page calls the player from tasks of its
\* own, not from inside the player's microtasks.
\* play() throws on a missing engine instance before it changes anything
UserPlay(p) ==
    /\ InScript
    /\ ~PlayThrows(pl[p])
    /\ PlayerStep([World EXCEPT !.pl[p] = Play(@)], Op("play", p))

UserPause(p) ==
    /\ InScript
    /\ PlayerStep([World EXCEPT !.pl[p] = Pause(@)], Op("pause", p))

UserStop(p) ==
    /\ InScript
    /\ PlayerStep([World EXCEPT !.pl[p] = Stop(@)], Op("stop", p))

UserSeek(p, frame) ==
    /\ InScript
    /\ PlayerStep([World EXCEPT !.pl[p] = Seek(@, frame)], Op("seek", p))

UserFreeze(p) ==
    /\ InScript
    /\ PlayerStep([World EXCEPT !.pl[p] = Freeze(@)], Op("freeze", p))

UserDestroy(p) ==
    /\ InScript
    /\ PlayerStep([World EXCEPT !.pl[p] = Destroy(@)], Op("destroy", p))

\* the IntersectionObserver reports
Visibility(p, isIntersecting) ==
    /\ IdleScript
    /\ pl[p].observer
    /\ PlayerStep([World EXCEPT !.pl[p] = ObserverCallback(@, isIntersecting)],
                  Op("observer", p))

\* a frame period passes while the clock of p runs
AdvanceTime(p) ==
    /\ IdleScript
    /\ pl[p].currentState = Playing
    /\ pl[p].sinceBegin < MaxTime
    /\ PlayerStep([World EXCEPT !.pl[p].sinceBegin = @ + 1], Op("time", p))

\* ------------------------------------------------------- delegated driver
MaxQueue == 2       \* messages one channel may hold
MaxCalls == 2       \* calls the page makes on the worker-delegated player

\* id numbers the LOAD commands and their completions; the code carries no
\* such number, it is kept to tell the completions apart
Msg(type, n, src) == [type |-> type, n |-> n, src |-> src, id |-> 0]

\* The fields of a LottieWorkerPlayer after firstUpdated(); size holds the
\* source whose LOADED response set _animationSize.  called, loads (LOAD
\* commands sent), done (load completions received), req (the source of
\* the latest load request) and failed (that request was answered with
\* ERROR) record what the player did, and canvas what the
\* last step did to the canvas element on the page; the code does not read
\* them.
NewWorkerPlayer(renderer, src, autoPlay, supportsOffscreenCanvas) ==
    [renderer |-> renderer, src |-> src, fileType |-> "json", autoPlay |-> autoPlay,
     totalFrame |-> 0, currentFrame |-> 0, currentState |-> Loading,
     size |-> NoSrc, worker |-> TRUE,
     supportsOffscreenCanvas |-> supportsOffscreenCanvas, ev |-> <<>>,
     canvas |-> << >>,
     called |-> 0, loads |-> 0, done |-> 0, req |-> NoSrc, failed |-> FALSE]

\* The globals of lottie-worker.ts when the script has been evaluated.
\* sinceStart is Date.now() - _animationStartTime; duration is in frame
\* periods (2.0 s at 60 frames); anim is the source the engine holds and
\* timers the number of intervals that are set.
NewWorker ==
    [moduleRequested |-> FALSE, module |-> FALSE, tvg |-> FALSE,
     isInitialized |-> FALSE, canvasInfo |-> FALSE,
     isPlaying |-> FALSE, sinceStart |-> 0, animationSpeed |-> 1,
     totalFrames |-> 60, duration |-> 60, animationFrame |-> FALSE, timers |-> 0,
     useOffscreenCanvas |-> FALSE, offscreenCanvas |-> FALSE, anim |-> NoSrc]

\* The part of the state the handlers of the delegated driver work on
WWorld == [wp |-> [wp EXCEPT !.ev = <<>>, !.canvas = << >>], wk |-> wk, wt |-> wtasks,
           tw |-> toWorker, tm |-> toMain]

\* _sendToWorker
SendToWorker(W, m) ==
    IF W.wp.worker THEN [W EXCEPT !.tw = Append(@, m)] ELSE W

PostMessage(W, m) == [W EXCEPT !.tm = Append(@, m)]

WEmit(W, e) == [W EXCEPT !.wp.ev = Append(@, e)]

\* ---------------------------------------------- LottieWorkerPlayer: operations
UpdateCanvasInfo(W) == SendToWorker(W, Msg("UPDATE_CANVAS_INFO", 0, NoSrc))

\* load() keeps a string source and the JSON text of an object source
WLoad(W, src, ft) ==
    LET W1 == [W EXCEPT !.wp.src = IF src = "object" THEN "text" ELSE src,
                        !.wp.fileType = ft,
                        !.wp.currentState = Loading]
    IN IF ~W.wp.worker THEN W1
       ELSE SendToWorker([W1 EXCEPT !.wp.loads = @ + 1, !.wp.req = src,
                                    !.wp.failed = FALSE],
                         [Msg("LOAD", 0, src) EXCEPT !.id = W.wp.loads + 1])

WPlay(W) ==
    IF W.wp.currentState \notin {Stopped, Paused} THEN W
    ELSE IF W.wp.totalFrame < 1 THEN W
    ELSE WEmit(SendToWorker([W EXCEPT !.wp.currentState = Playing],
                            Msg("PLAY", 0, NoSrc)), "play")

WPause(W) ==
    WEmit(SendToWorker([W EXCEPT !.wp.currentState = Paused],
                       Msg("PAUSE", 0, NoSrc)), "pause")

WSeek(W, frame) ==
    SendToWorker([W EXCEPT !.wp.currentFrame = frame], Msg("SEEK", frame, NoSrc))

WStop(W) ==
    WEmit(WSeek(SendToWorker([W EXCEPT !.wp.currentState = Stopped,
                                       !.wp.currentFrame = 0],
                             Msg("STOP", 0, NoSrc)), 0), "stop")

\* resize() assigns the width and height of the canvas element; on a canvas
\* whose control was transferred the assignment throws and resize() ends
\* there
WResize(W) ==
    LET W1 == [W EXCEPT !.wp.canvas = Append(@, "size")] IN
    IF W.wp.supportsOffscreenCanvas THEN W1 ELSE UpdateCanvasInfo(W1)

\* worker.terminate() discards the worker's tasks and the responses not yet
\* delivered
WDestroy(W) ==
    LET W1 == IF W.wp.worker
              THEN [W EXCEPT !.wp.worker = FALSE, !.wt = EmptyBag,
                             !.tw = <<>>, !.tm = <<>>]
              ELSE W
    IN WEmit([W1 EXCEPT !.wp.currentState = Destroyed], "destroyed")

HandleWorkerMessage(W0, m) ==
    LET W == IF m.id # 0
             THEN [W0 EXCEPT !.wp.done = @ + 1,
                             !.wp.failed = IF m.id = W0.wp.loads
                                           THEN m.type = "ERROR" ELSE @]
             ELSE W0 IN
    CASE m.type = "READY" ->
           LET W1 == UpdateCanvasInfo(W) IN
           IF W1.wp.src # NoSrc THEN WLoad(W1, W1.wp.src, W1.wp.fileType) ELSE W1
      [] m.type = "LOADED" ->
           LET W1 == WEmit([W EXCEPT !.wp.totalFrame = m.n, !.wp.size = m.src,
                                     !.wp.currentState = Stopped], "load")
           IN IF W1.wp.autoPlay THEN WPlay(W1) ELSE W1
      [] m.type = "FRAME" ->
           LET W1 == IF ~W.wp.supportsOffscreenCanvas
                     THEN [W EXCEPT !.wp.canvas = Append(@, "putImageData")]
                     ELSE W
           IN WEmit([W1 EXCEPT !.wp.currentFrame = m.n], "frame")
      [] m.type = "ERROR" ->
           WEmit([W EXCEPT !.wp.currentState = Error], "error")
      [] OTHER ->
           WEmit([W EXCEPT !.wp.currentState = Stopped], "complete")

\* ------------------------------------------------------------ worker script
\* initializeWorker once Module() has settled: _initModule(SW) returns at
\* once, the engine instance is created, READY is posted
InitializeWorker(W, ok) ==
    IF ok
    THEN PostMessage([W EXCEPT !.wk.module = TRUE, !.wk.tvg = TRUE,
                               !.wk.isInitialized = TRUE],
                     Msg("READY", 0, NoSrc))
    ELSE PostMessage(W, Msg("ERROR", 0, "init"))

\* loadLottieData from _TVG.load on
LoadLottieData(W, src, id) ==
    IF ~EngineLoads(Encode(src))
    THEN PostMessage([W EXCEPT !.wk.anim = NoSrc],
                     [Msg("ERROR", 0, "load") EXCEPT !.id = id])
    ELSE PostMessage([W EXCEPT !.wk.anim = src,
                               !.wk.totalFrames = FramesOf(Encode(src)),
                               !.wk.duration = FramesOf(Encode(src))],
                     [Msg("LOADED", FramesOf(Encode(src)), src) EXCEPT !.id = id])

\* startWorkerAnimationLoop without `if (_isPlaying) return`
StartWorkerAnimationLoop_noGuard(W) ==
    [W EXCEPT !.wk.isPlaying = TRUE, !.wk.sinceStart = 0,
              !.wk.animationFrame = TRUE, !.wk.timers = @ + 1]

StartWorkerAnimationLoop(W) ==
    IF W.wk.isPlaying THEN W
    ELSE [W EXCEPT !.wk.isPlaying = TRUE, !.wk.sinceStart = 0,
                   !.wk.animationFrame = TRUE, !.wk.timers = @ + 1]

\* clearInterval ends the interval whose handle _animationFrame holds
StopWorkerAnimationLoop(W) ==
    [W EXCEPT !.wk.isPlaying = FALSE, !.wk.animationFrame = FALSE,
              !.wk.timers = IF W.wk.animationFrame THEN @ - 1 ELSE @]

\* renderFrame; out is what the engine does with the frame: "frame" (drawn),
\* "skip" (update() false or an empty buffer) or "error" (a call throws); by
\* names the caller in the ERROR response, which the code does not do
RenderFrame(W, frameNumber, out, by) ==
    IF ~W.wk.isInitialized \/ ~W.wk.tvg THEN W
    ELSE IF ~(W.wk.useOffscreenCanvas /\ W.wk.offscreenCanvas) /\ ~W.wk.canvasInfo THEN W
    ELSE CASE out = "frame" -> PostMessage(W, Msg("FRAME", frameNumber, NoSrc))
           [] out = "error" -> PostMessage(W, Msg("ERROR", 0, by))
           [] OTHER -> W

\* the callback of the interval started by startWorkerAnimationLoop
WorkerTick(W, out) ==
    IF ~W.wk.isPlaying \/ ~W.wk.isInitialized \/ ~W.wk.tvg \/ ~W.wk.canvasInfo THEN W
    ELSE LET f == (W.wk.sinceStart * W.wk.animationSpeed * W.wk.totalFrames)
                    \div W.wk.duration
         IN IF f >= W.wk.totalFrames
            THEN RenderFrame([W EXCEPT !.wk.sinceStart = 0], f % W.wk.totalFrames,
                             out, "tick")
            ELSE RenderFrame(W, f, out, "tick")

\* the message listener of the worker, up to its first await
OnMessage(W, m, out) ==
    CASE m.type = "INIT" ->
           LET W1 == [W EXCEPT !.wk.useOffscreenCanvas = W.wp.supportsOffscreenCanvas,
                               !.wk.offscreenCanvas = W.wp.supportsOffscreenCanvas]
           IN [W1 EXCEPT !.wk.moduleRequested = TRUE,
                         !.wt = @ (+) SetToBag({Cont("module", 0, SW, NoSrc, "json", FALSE)})]
      [] m.type = "LOAD" ->
           IF ~W.wk.isInitialized \/ ~W.wk.tvg
           THEN PostMessage(W, [Msg("ERROR", 0, "load") EXCEPT !.id = m.id])
           ELSE IF m.src # "object" /\ ~ParsesAsJSON(m.src)
                THEN [W EXCEPT !.wt = @ (+) SetToBag({Cont("fetch", m.id, SW, m.src, "json", FALSE)})]
                ELSE LoadLottieData(W, m.src, m.id)
      [] m.type = "PLAY" -> StartWorkerAnimationLoop(W)
      [] m.type \in {"PAUSE", "STOP"} -> StopWorkerAnimationLoop(W)
      [] m.type = "SEEK" -> RenderFrame(W, m.n, out, "seek")
      [] OTHER -> [W EXCEPT !.wk.canvasInfo = TRUE]

\* -------------------------------------------------- delegated driver: actions
WOp(n) == [n |-> n, p |-> 0, pre |-> IF n = "play" THEN wp.currentState ELSE "none"]

WCommit(W) ==
    /\ Len(W.tw) <= MaxQueue
    /\ Len(W.tm) <= MaxQueue
    /\ wp' = W.wp
    /\ wk' = W.wk
    /\ wtasks' = W.wt
    /\ toWorker' = W.tw
    /\ toMain' = W.tm

WorkerStep(W, o) ==
    /\ WCommit(W)
    /\ op' = o
    /\ UNCHANGED pvars

RenderOutcomes == {"frame", "skip", "error"}

\* the worker takes the next command
WorkerReceive ==
    /\ toWorker # <<>>
    /\ \E out \in RenderOutcomes :
         WorkerStep(OnMessage([WWorld EXCEPT !.tw = Tail(@)], Head(toWorker), out),
                    WOp("onmessage"))

\* Module() settles in the worker
WorkerModule(c, ok) ==
    /\ c \in BagToSet(wtasks) /\ c.k = "module"
    /\ WorkerStep(InitializeWorker([WWorld EXCEPT !.wt = @ (-) SetToBag({c})], ok),
                  WOp("initializeWorker"))

\* the fetch of loadLottieData settles
WorkerFetch(c, ok) ==
    /\ c \in BagToSet(wtasks) /\ c.k = "fetch"
    /\ LET W == [WWorld EXCEPT !.wt = @ (-) SetToBag({c})] IN
       WorkerStep(IF ok THEN LoadLottieData(W, c.src, c.p)
                  ELSE PostMessage(W, [Msg("ERROR", 0, "load") EXCEPT !.id = c.p]),
                  WOp("loadLottieData"))

WorkerInterval ==
    /\ wk.timers > 0
    /\ \E out \in RenderOutcomes :
         WorkerStep(WorkerTick(WWorld, out), WOp("tick"))

\* a frame period passes while the worker's loop runs
WorkerAdvanceTime ==
    /\ wk.isPlaying
    /\ wk.sinceStart < MaxTime
    /\ WorkerStep([WWorld EXCEPT !.wk.sinceStart = @ + 1], WOp("time"))

\* the primary context takes the next response
MainReceive ==
    /\ toMain # <<>>
    /\ WorkerStep(HandleWorkerMessage([WWorld EXCEPT !.tm = Tail(@)], Head(toMain)),
                  WOp(Head(toMain).type))

\* the page calls a method of the player
Called(W) == [W EXCEPT !.wp.called = @ + 1]

CanCall == wp.called < MaxCalls

WUserLoad ==
    /\ CanCall
    /\ \E in \in LoadInputs :
         WorkerStep(Called(WLoad(WWorld, in[1], in[2])), WOp("load"))

WUserPlay == CanCall /\ WorkerStep(Called(WPlay(WWorld)), WOp("play"))

WUserPause == CanCall /\ WorkerStep(Called(WPause(WWorld)), WOp("pause"))

WUserStop == CanCall /\ WorkerStep(Called(WStop(WWorld)), WOp("stop"))

WUserSeek(frame) == CanCall /\ WorkerStep(Called(WSeek(WWorld, frame)), WOp("seek"))

WUserResize == CanCall /\ WorkerStep(Called(WResize(WWorld)), WOp("resize"))

WUserDestroy == CanCall /\ WorkerStep(Called(WDestroy(WWorld)), WOp("destroy"))

\* ----------------------------------------------------------- specifications
vars == <<moduleRequested, moduleLoaded, initStatus, pl, micro, tasks, op,
          wp, wk, wtasks, toWorker, toMain>>

NoOp == [n |-> "new", p |-> 0, pre |-> "none"]

\* The worker-delegated players: Software players with and without src,
\* autoplay and OffscreenCanvas, and players that ask for another renderer.
WorkerConfigs ==
    {NewWorkerPlayer(SW, src, a, o) : src \in {NoSrc, "url"}, a \in BOOLEAN, o \in BOOLEAN}
      \cup {NewWorkerPlayer(r, NoSrc, FALSE, FALSE) : r \in {WG, GL}}

\* the renderer of the worker's engine instance: initializeWorker always
\* creates it with Renderer.SW
WorkerEngine == IF wk.tvg THEN SW ELSE "none"

NoWorker ==
    /\ wp = NewWorkerPlayer(SW, NoSrc, FALSE, FALSE)
    /\ wk = NewWorker
    /\ wtasks = EmptyBag
    /\ toWorker = <<>>
    /\ toMain = <<>>

\* Several players start in one page, which may have
\* loaded the module for an earlier Software player; only initialisation and
\* loading run, and the page calls load() once, on players whose _init() has
\* not run yet.
EarlyLoad(p) ==
    /\ pl[p].timer
    /\ UserLoad(p, {<<"object", "json">>})

\* Players differ in nothing but their renderer, so they are numbered in the
\* order of the fallback chain.
Tier(r) == CASE r = WG -> 0 [] r = GL -> 1 [] OTHER -> 2

InitShared ==
    /\ moduleRequested \in BOOLEAN
    /\ moduleLoaded = moduleRequested
    /\ initStatus = IDLE
    /\ pl \in [Players -> {NewPlayer(r, NoSrc, FALSE, FALSE, 0, Normal, 1) : r \in Renderers}]
    /\ \A p, q \in Players : p < q => Tier(pl[p].renderer) <= Tier(pl[q].renderer)
    /\ micro = <<>>
    /\ tasks = EmptyBag
    /\ op = NoOp
    /\ NoWorker

NextShared ==
    \/ \E p \in Players : TimerInit(p)
    \/ \E c \in BagToSet(tasks), ok \in BOOLEAN : TaskModule(c, ok)
    \/ \E c \in BagToSet(tasks) : TaskInitWait(c)
    \/ \E c \in BagToSet(tasks) : TaskImWait(c)
    \/ \E c \in BagToSet(tasks) : TaskImPoll(c)
    \/ MicroInitAfter
    \/ \E p \in Players : EarlyLoad(p)
    \/ MicroLoadAfterInit
    \/ MicroLoadParsed

SpecShared == InitShared /\ [][NextShared]_vars

\* One player through its whole life.
PlayerConfigs ==
    { NewPlayer(SW, NoSrc, a, FALSE, 0, Normal, 1) : a \in BOOLEAN }

Init ==
    /\ moduleRequested = FALSE
    /\ moduleLoaded = FALSE
    /\ initStatus = IDLE
    /\ \E cfg \in PlayerConfigs :
         pl = [q \in Players |-> IF q = 1 THEN cfg
                                 ELSE NewPlayer(SW, NoSrc, FALSE, FALSE, 0, Normal, 1)]
    /\ micro = <<>>
    /\ tasks = EmptyBag
    /\ op = NoOp
    /\ NoWorker

Next ==
    \/ TimerInit(1)
    \/ \E c \in BagToSet(tasks), ok \in BOOLEAN : TaskModule(c, ok)
    \/ \E c \in BagToSet(tasks) : TaskInitWait(c)
    \/ MicroInitAfter
    \/ UserLoad(1, LoadInputs)
    \/ MicroLoadAfterInit
    \/ \E c \in BagToSet(tasks), ok \in BOOLEAN : TaskFetch(c, ok)
    \/ MicroLoadParsed
    \/ AnimLoop(1)
    \/ MicroAnimAfter
    \/ UserPlay(1)
    \/ UserPause(1)
    \/ UserStop(1)
    \/ \E frame \in 0..MaxSeek : UserSeek(1, frame)
    \/ UserFreeze(1)
    \/ UserDestroy(1)
    \/ \E b \in BOOLEAN : Visibility(1, b)
    \/ AdvanceTime(1)

Spec == Init /\ [][Next]_vars

\* One worker-delegated player and its worker; firstUpdated() has posted INIT.
InitWorker ==
    /\ moduleRequested = FALSE
    /\ moduleLoaded = FALSE
    /\ initStatus = IDLE
    /\ pl = [q \in Players |-> NewPlayer(SW, NoSrc, FALSE, FALSE, 0, Normal, 1)]
    /\ micro = <<>>
    /\ tasks = EmptyBag
    /\ op = NoOp
    /\ wp \in WorkerConfigs
    /\ wk = NewWorker
    /\ wtasks = EmptyBag
    /\ toWorker = <<Msg("INIT", 0, NoSrc)>>
    /\ toMain = <<>>

NextWorker ==
    \/ WorkerReceive
    \/ \E c \in BagToSet(wtasks), ok \in BOOLEAN : WorkerModule(c, ok)
    \/ \E c \in BagToSet(wtasks), ok \in BOOLEAN : WorkerFetch(c, ok)
    \/ WorkerInterval
    \/ WorkerAdvanceTime
    \/ MainReceive
    \/ WUserLoad
    \/ WUserPlay
    \/ WUserPause
    \/ WUserStop
    \/ \E frame \in 0..MaxSeek : WUserSeek(frame)
    \/ WUserResize
    \/ WUserDestroy

SpecWorker == InitWorker /\ [][NextWorker]_vars

\* ------------------------------------------------------------------ claims
\* The players inside the `while (true)` loop of _initModule: they have set
\* InitStatus to Requested and init() has not given a terminal result yet
Holders ==
    {p \in Players : \E c \in BagToSet(tasks) : c.p = p /\ c.k = "im_poll"}

\* C1: Destroyed is absorbing.  Once currentState is Destroyed, no step of the
\* in-process player or of the worker-delegated player gives currentState
\* another value.
C1_DestroyedAbsorbing ==
    [][ /\ \A p \in Players :
             pl[p].currentState = Destroyed => pl'[p].currentState = Destroyed
        /\ wp.currentState = Destroyed => wp'.currentState = Destroyed ]_vars

\* C2: a player whose WebGPU bring-up failed, in a page where no init() call
\* has succeeded, does not finish initialisation on WebGPU, and the
\* rendererFallback events of a player that finished initialisation are
\* exactly one {requested, actual} when the active renderer differs from the
\* requested one and none otherwise.
C2_FallbackToNextTier ==
    \A p \in Players :
        pl[p].tvg = "live" =>
            /\ (pl[p].wgFailed /\ \A q \in Players : ~pl[q].wgReady)
                  => pl[p].actual # WG
            /\ pl[p].fb = IF pl[p].actual # pl[p].renderer
                          THEN << <<pl[p].renderer, pl[p].actual>> >>
                          ELSE << >>

\* C3: single flight.  At most one player is between setting InitStatus to
\* Requested and a terminal status, the status is Requested exactly while
\* there is one, and no other player calls the engine's init() while the
\* status is Requested.
C3_SingleFlight ==
    /\ [](/\ Cardinality(Holders) <= 1
          /\ \A c \in BagToSet(tasks) : c.k = "im_poll" => tasks[c] = 1
          /\ (Holders # {}) <=> (initStatus = REQUESTED))
    /\ [][\A p \in Players :
            pl'[p].calls > pl[p].calls =>
                (initStatus # REQUESTED \/ p \in Holders)]_vars

C3_Witness ==
    \E p, q \in Players :
        /\ p # q
        /\ initStatus = REQUESTED
        /\ \E c \in BagToSet(tasks) : c.p = p /\ c.k = "im_poll"
        /\ \E c \in BagToSet(tasks) : c.p = q /\ c.k = "im_wait"
        /\ pl[q].waited /\ pl[q].calls = 0

\* C4 as stated: a player that waited for an in-flight attempt never calls
\* the engine's init() itself.
C4_NeverInvokes ==
    \A p \in Players : pl[p].waited => pl[p].calls = 0

\* C4 amended: a player that waited for an in-flight attempt adopts its
\* outcome, calling init() not at all, exactly when the wait ends with the
\* status Initialized; when it ends with another status the player sets
\* Requested and calls init() itself.
C4_AdoptsOnlyInitialized ==
    \A p \in Players :
        (pl[p].waited /\ pl[p].saw # "none") =>
            /\ pl[p].saw \in {INITIALIZED, IDLE}
            /\ (pl[p].calls = 0) <=> (pl[p].saw = INITIALIZED)

C4_Witness ==
    \E p \in Players :
        /\ pl[p].waited /\ pl[p].saw = INITIALIZED
        /\ pl[p].calls = 0 /\ pl[p].actual = WG

\* C5: initialisation puts no player in Error.  _initModule returns at once
\* for the Software tier, so the Software tier has no failing outcome of its
\* own and the status Failed another player's WebGPU attempt has set must not
\* count against it.
C5_ErrorOnlyIfSoftwareFailed ==
    \A p \in Players : ~pl[p].initErr

\* C6: seek(f) called in state Playing, Frozen, Stopped or Paused leaves the
\* player Paused, in both drivers.
C6_SeekPauses ==
    [][op'.n = "seek" =>
         /\ op'.p = 0 =>
              (wp.currentState \in {Playing, Frozen, Stopped, Paused}
                 => wp'.currentState = Paused)
         /\ \A p \in Players : op'.p = p =>
              (pl[p].currentState \in {Playing, Frozen, Stopped, Paused}
                 => pl'[p].currentState = Paused)]_vars

\* C7: play() called from Stopped or Paused right after seek(f) starts the
\* clock at f: the frame the clock derives at the moment play() returns is f.
C7_PlayResumesFromSeek ==
    [][\A p \in Players :
         (/\ op.n = "seek" /\ op.p = p
          /\ op'.n = "play" /\ op'.p = p /\ op'.pre \in {Stopped, Paused}
          /\ pl'[p].currentState = Playing)
         => ClockFrame(pl'[p]) = pl[p].currentFrame]_vars

\* C8 as stated: play() with a total frame count < 1 or in state Playing
\* changes neither currentState nor the begin timestamp nor the current
\* frame and schedules no tick.
C8_PlayNoOp ==
    [][\A p \in Players :
         (/\ op'.n = "play" /\ op'.p = p
          /\ (pl[p].tvgTotal < 1 \/ pl[p].currentState = Playing))
         => /\ pl'[p].currentState = pl[p].currentState
            /\ pl'[p].sinceBegin = pl[p].sinceBegin
            /\ pl'[p].currentFrame = pl[p].currentFrame
            /\ pl'[p].raf = pl[p].raf]_vars

\* C8 amended: play() with a total frame count < 1 changes neither
\* currentState nor the begin timestamp nor the current frame and schedules
\* no tick; play() in state Playing changes neither currentState nor the
\* current frame and schedules no tick, but sets the begin timestamp to now.
C8_PlayGuards ==
    [][\A p \in Players :
         (/\ op'.n = "play" /\ op'.p = p
          /\ (pl[p].tvgTotal < 1 \/ pl[p].currentState = Playing))
         => /\ pl'[p].currentState = pl[p].currentState
            /\ pl'[p].currentFrame = pl[p].currentFrame
            /\ pl'[p].raf = pl[p].raf
            /\ pl'[p].sinceBegin =
                 IF pl[p].tvgTotal < 1 THEN pl[p].sinceBegin ELSE 0]_vars

C8_Witness ==
    /\ op.n = "play" /\ op.p = 1 /\ op.pre = Playing
    /\ pl[1].currentState = Playing /\ pl[1].sinceBegin = 0
    /\ pl[1].currentFrame > 0

\* C9: stop() called on a loaded player in state Playing, Paused or Stopped
\* leaves currentState Stopped and currentFrame 0, in both drivers.
C9_StopStops ==
    [][op'.n = "stop" =>
         /\ op'.p = 0 =>
              ((wp.totalFrame >= 1 /\ wp.currentState \in {Playing, Paused, Stopped})
                 => wp'.currentState = Stopped /\ wp'.currentFrame = 0)
         /\ \A p \in Players : op'.p = p =>
              ((pl[p].tvgTotal >= 1 /\ pl[p].currentState \in {Playing, Paused, Stopped})
                 => pl'[p].currentState = Stopped /\ pl'[p].currentFrame = 0)]_vars

\* C10: when the load of a player in Loading succeeds (the load event is
\* emitted), the player is Stopped without autoplay and Playing with autoplay
\* on a visible element, in both drivers.
C10_LoadLeavesLoading ==
    [][ /\ \A p \in Players :
             (/\ op'.n = "loadBytes" /\ op'.p = p
              /\ pl[p].currentState = Loading
              /\ \E i \in 1..Len(pl'[p].ev) : pl'[p].ev[i] = "load")
             => pl'[p].currentState =
                  IF ~pl[p].autoPlay THEN Stopped
                  ELSE IF pl[p].observable THEN Playing ELSE Frozen
        /\ (/\ op'.n = "LOADED" /\ wp.currentState = Loading)
             => wp'.currentState = IF wp.autoPlay THEN Playing ELSE Stopped ]_vars

\* C11: when the observer reports loss of intersection while the player is
\* Playing, the state becomes Frozen and exactly one freeze event is emitted;
\* when it reports loss while Paused or Stopped, the state is unchanged and
\* no event is emitted.
C11_FreezeOnce ==
    [][\A p \in Players :
         (op'.n = "observer" /\ op'.p = p /\ ~pl'[p].observable) =>
            /\ pl[p].currentState = Playing =>
                 /\ pl'[p].currentState = Frozen
                 /\ Cardinality({i \in 1..Len(pl'[p].ev) :
                                   pl'[p].ev[i] = "freeze"}) = 1
            /\ pl[p].currentState \in {Paused, Stopped} =>
                 /\ pl'[p].currentState = pl[p].currentState
                 /\ pl'[p].ev = << >>]_vars

\* C12 as stated: when intersection is regained while the player is Frozen
\* the player becomes Playing with a tick scheduled and no pause event; in
\* any other state currentState is unchanged.
C12_RegainAlwaysPlays ==
    [][\A p \in Players :
         (op'.n = "observer" /\ op'.p = p /\ pl'[p].observable) =>
            IF pl[p].currentState = Frozen
            THEN /\ pl'[p].currentState = Playing
                 /\ pl'[p].raf = pl[p].raf + 1
                 /\ \A i \in 1..Len(pl'[p].ev) : pl'[p].ev[i] # "pause"
            ELSE pl'[p].currentState = pl[p].currentState]_vars

\* C12 amended: when intersection is regained while the player is Frozen and
\* its engine instance holds an animation of at least one frame, the player
\* becomes Playing with a tick scheduled and no pause event; while Frozen
\* with no such animation it stays Frozen; in any other state currentState
\* is unchanged.
C12_RegainResumesLoaded ==
    [][\A p \in Players :
         (op'.n = "observer" /\ op'.p = p /\ pl'[p].observable) =>
            IF pl[p].currentState = Frozen
            THEN IF pl[p].tvg = "live" /\ pl[p].tvgTotal >= 1
                 THEN /\ pl'[p].currentState = Playing
                      /\ pl'[p].raf = pl[p].raf + 1
                      /\ \A i \in 1..Len(pl'[p].ev) : pl'[p].ev[i] # "pause"
                 ELSE pl'[p].currentState = Frozen /\ pl'[p].raf = pl[p].raf
            ELSE pl'[p].currentState = pl[p].currentState]_vars

C12_Witness ==
    /\ op.n = "observer" /\ op.p = 1 /\ op.pre = Frozen
    /\ pl[1].observable /\ pl[1].currentState = Playing /\ pl[1].raf > 0

\* One in-process player whose clock runs playthroughs: the page loads an
\* animation into an autoplaying player and calls play() and stop().
ClockConfigs ==
    { NewPlayer(SW, NoSrc, TRUE, l, c, m, 1) :
        l \in BOOLEAN, c \in 0..MaxCount, m \in {Normal, Bounce} }

InitClock ==
    /\ moduleRequested = FALSE
    /\ moduleLoaded = FALSE
    /\ initStatus = IDLE
    /\ \E cfg \in ClockConfigs :
         pl = [q \in Players |-> IF q = 1 THEN cfg
                                 ELSE NewPlayer(SW, NoSrc, FALSE, FALSE, 0, Normal, 1)]
    /\ micro = <<>>
    /\ tasks = EmptyBag
    /\ op = NoOp
    /\ NoWorker

NextClock ==
    \/ TimerInit(1)
    \/ \E c \in BagToSet(tasks) : TaskModule(c, TRUE)
    \/ MicroInitAfter
    \/ UserLoad(1, {<<"object", "json">>})
    \/ MicroLoadAfterInit
    \/ MicroLoadParsed
    \/ AnimLoop(1)
    \/ \E c \in BagToSet(tasks) : TaskUpdateWait(c)
    \/ MicroAnimAfter
    \/ UserPlay(1)
    \/ UserStop(1)
    \/ \E b \in BOOLEAN : Visibility(1, b)
    \/ AdvanceTime(1)

SpecClock == InitClock /\ [][NextClock]_vars

\* C13: when a Bounce player with loop off and repeat count N >= 1 emits
\* complete and becomes Stopped, the playthrough that ends there has run
\* exactly 2N passes, and no two consecutive passes share a direction.
Emitted(s, e) == \E i \in 1..Len(s.ev) : s.ev[i] = e

Alternates(legs) == \A i \in 1..(Len(legs) - 1) : legs[i] # legs[i + 1]

C13_BounceLegs ==
    \A p \in Players :
        ( /\ pl[p].mode = Bounce /\ ~pl[p].loop /\ pl[p].count >= 1
          /\ Emitted(pl[p], "complete") )
        => /\ pl[p].currentState = Stopped
           /\ Len(pl[p].legs) = 2 * pl[p].count
           /\ Alternates(pl[p].legs)

\* C14: a player whose loop property is set never emits complete and is never
\* moved to Stopped; a step emits complete or moves a player to Stopped only
\* when loop is off and the repeat budget, if there is one, is used up.
C14_CompleteOnlyWhenExhausted ==
    [][\A p \in Players :
          (Emitted(pl'[p], "complete")
             \/ (pl[p].currentState # Stopped /\ pl'[p].currentState = Stopped))
          => /\ ~pl[p].loop
             /\ pl[p].currentState = Playing
             /\ TotalCount(pl[p]) = 0 \/ pl[p].counter >= TotalCount(pl[p])]_vars

\* a looping player without repeat count has passed the boundary twice and is
\* still playing
C14_Witness ==
    /\ pl[1].loop /\ pl[1].count = 0
    /\ Len(pl[1].legs) >= 2
    /\ pl[1].currentState = Playing

\* C15: a load completion (LOADED or ERROR) that the player receives after it
\* has requested a newer load changes neither totalFrame, size nor
\* currentState; and once every requested load has completed, the worker
\* engine holds the animation of the latest request and the player shows its
\* totalFrame.
C15_LastLoadWins ==
    /\ [][(/\ toMain # << >>
           /\ op'.n = Head(toMain).type
           /\ Head(toMain).id # 0
           /\ Head(toMain).id < wp.loads)
          => /\ wp'.totalFrame = wp.totalFrame
             /\ wp'.size = wp.size
             /\ wp'.currentState = wp.currentState]_vars
    /\ []((/\ wp.worker
           /\ wp.loads >= 2
           /\ wp.done = wp.loads
           /\ EngineLoads(Encode(wp.req)))
          => /\ wk.anim = wp.req
             /\ wp.totalFrame = FramesOf(Encode(wp.req)))

\* C16: the worker starts handling a command only when the handling of every
\* earlier command is finished, its asynchronous parts (the module load of
\* INIT, the fetch of LOAD) included; in particular a LOAD is not handled
\* while the INIT before it is still bringing the engine up.
C16_CommandsInOrder ==
    [][op'.n = "onmessage" /\ toWorker # << >> /\ toWorker' # toWorker
       => wtasks = EmptyBag]_vars

\* C17: a player whose canvas was transferred to the worker does nothing to
\* the canvas element afterwards: no putImageData and no assignment of its
\* width or height.
C17_TransferredCanvasUntouched ==
    wp.supportsOffscreenCanvas => wp.canvas = << >>

\* C18: a player that has emitted destroyed (its engine instance is deleted)
\* emits no frame, loop, ready, load, error, complete, play or pause from
\* the work that was pending when destroy() was called: the steps of its
\* timers, fetches, continuations and ticks.
Notifications ==
    {"frame", "loop", "ready", "load", "error", "complete", "play", "pause"}

C18_SilentAfterDestroyed ==
    [][\A p \in Players :
          (pl[p].tvg = "null" /\ op'.n \notin PageCalls)
          => \A e \in Notifications : ~Emitted(pl'[p], e)]_vars

\* C19: destroy() called on a player that is not Destroyed, whatever its
\* state, leaves it Destroyed, emits destroyed, and leaves neither its
\* initialisation interval running nor a timer, poll or fetch of it pending.
C19_DestroyAlwaysDestroys ==
    [][\A p \in Players :
          (op'.n = "destroy" /\ op'.p = p /\ pl[p].currentState # Destroyed)
          => /\ pl'[p].currentState = Destroyed
             /\ Emitted(pl'[p], "destroyed")
             /\ ~pl'[p].timer
             /\ \A c \in BagToSet(tasks') : c.p # p]_vars

\* C20: a load that fails, because the fetch of the source fails or because
\* the engine rejects the bytes, leaves the player in Error with an error
\* event and without a load event, and leaves its engine instance as it was.
LoadFails ==
    \/ /\ op'.n = "fetch"
       /\ micro' = micro
    \/ /\ op'.n = "loadBytes"
       /\ micro # << >>
       /\ ~EngineLoads(Encode(Head(micro).src))

C21_NoAutomaticRetry ==
    [][(wp.failed /\ op'.n # "load") => wp'.loads = wp.loads]_vars

\* The event loop runs every timer callback, settled promise and microtask
\* that is ready; the page is not obliged to call anything.
Background ==
    \/ \E p \in Players : TimerInit(p)
    \/ \E c \in BagToSet(tasks), ok \in BOOLEAN : TaskModule(c, ok)
    \/ \E c \in BagToSet(tasks) : TaskInitWait(c)
    \/ \E c \in BagToSet(tasks) : TaskImWait(c)
    \/ \E c \in BagToSet(tasks) : TaskImPoll(c)
    \/ MicroInitAfter
    \/ MicroLoadAfterInit
    \/ MicroLoadParsed

SpecSharedLive == InitShared /\ [][NextShared]_vars /\ WF_vars(Background)

\* the Module() promise that p's _init() awaited has been rejected
ModuleFailed(p) ==
    /\ op.n = "module" /\ op.p = p
    /\ moduleRequested /\ ~moduleLoaded
    /\ \A c \in BagToSet(tasks) : c.k # "module"

\* p's _init() is about to resume with the Software tier reported as failed
TiersFailed(p) ==
    /\ micro # << >>
    /\ Head(micro).k = "init_after" /\ Head(micro).p = p /\ Head(micro).engine = SW
    /\ initStatus = FAILED

\* C22: a player whose initialisation has failed fatally, because the engine
\* module did not load or because the last renderer tier failed, eventually
\* is in Error and has emitted error; it does not stay in Loading for ever.
C22_InitFailureReachesError ==
    \A p \in Players :
        (ModuleFailed(p) \/ TiersFailed(p))
            ~> (pl[p].currentState = Error /\ Emitted(pl[p], "error"))

\* C23: a tick of the worker whose rendering throws posts an ERROR response
\* and leaves the interval of the animation loop running, and the player's
\* currentState is not changed when that response is delivered.
C23_RenderFailureNonFatal ==
    [][/\ (/\ op'.n = "tick"
           /\ Len(toMain') = Len(toMain) + 1
           /\ toMain'[Len(toMain')].type = "ERROR")
          => (toMain'[Len(toMain')].src = "tick" /\ wk'.animationFrame /\ wk'.isPlaying)
       /\ (/\ op'.n = "ERROR"
           /\ toMain # << >>
           /\ Head(toMain).src = "tick")
          => wp'.currentState = wp.currentState]_vars

\* C24: an in-process player never has more than one tick under way: the
\* animation-frame callbacks it has requested and the _animLoop calls that
\* are suspended in an await number at most one.
C24_SingleTick ==
    \A p \in Players : Chains(World, p) <= 1

\* C25: when the worker-delegated player learns that the worker is ready and
\* the worker's engine uses another renderer than the one its renderConfig
\* asks for, it emits rendererFallback.
C25_WorkerFallbackNotified ==
    [][(op'.n = "READY" /\ WorkerEngine # wp.renderer)
       => Emitted(wp', "rendererFallback")]_vars

\* C26: when the clock has reached a boundary and loops, the step that ends
\* the intermission and resumes the playing player emits exactly one loop
\* event.
C26_LoopNotified ==
    [][\A p \in Players :
          (/\ op'.n = "intermission" /\ op'.p = p
           /\ pl[p].currentState = Playing
           /\ pl'[p].currentState = Playing)
          => Cardinality({i \in 1..Len(pl'[p].ev) : pl'[p].ev[i] = "loop"}) = 1]_vars

\* C27: in every state between two operations of an in-process player whose
\* engine holds an animation, currentFrame lies between 0 and totalFrame, in
\* particular when a frame event has just been emitted with it.
C27_FrameInRange ==
    \A p \in Players :
        (pl[p].tvg = "live" /\ pl[p].tvgTotal >= 1 /\ pl[p].totalFrame >= 1)
        => /\ pl[p].currentFrame >= 0
           /\ pl[p].currentFrame <= pl[p].totalFrame

\* _initModule polls _module.init() after _wait(100) and the engine answers
\* 2 (pending) once more, beyond the polls that calls counts exactly: the
\* loop sleeps and polls again.  From MaxPolls on, calls keeps the parity of
\* the number of polls only.
TaskImPollPending(c) ==
    /\ IdleScript
    /\ c \in BagToSet(tasks) /\ c.k = "im_poll"
    /\ pl[c.p].calls + 1 >= MaxPolls
    /\ PlayerStep([World EXCEPT !.pl[c.p].calls =
                                   IF @ > MaxPolls THEN MaxPolls ELSE @ + 1],
                  Op("initModule", c.p))

\* Initialisation of several players with an engine that may answer pending
\* for as long as it likes.
NextPoll ==
    \/ NextShared
    \/ \E c \in BagToSet(tasks) : TaskImPollPending(c)

SpecPoll ==
    /\ InitShared
    /\ [][NextPoll]_vars
    /\ WF_vars(Background \/ \E c \in BagToSet(tasks) : TaskImPollPending(c))

\* p has a call of _initModule under way: waiting for another call's attempt
\* or for its next poll
InCall(p) ==
    \E c \in BagToSet(tasks) : c.p = p /\ c.k \in {"im_wait", "im_poll"}

\* C28: every call of _initModule comes to an end, and when no call is under
\* way InitStatus is not Requested.
C28_PollTerminates ==
    /\ \A p \in Players : InCall(p) ~> ~InCall(p)
    /\ []((\A p \in Players : ~InCall(p)) => initStatus # REQUESTED)

\* A visible in-process player and a worker-delegated player side by side.
\* Both are brought up without failure; the page then gives every command to
\* both, when neither has anything pending.
InitBoth ==
    /\ moduleRequested = FALSE
    /\ moduleLoaded = FALSE
    /\ initStatus = IDLE
    /\ pl = [q \in Players |->
               IF q = 1
               THEN [NewPlayer(SW, NoSrc, FALSE, FALSE, 0, Normal, 1)
                       EXCEPT !.observable = TRUE]
               ELSE NewPlayer(SW, NoSrc, FALSE, FALSE, 0, Normal, 1)]
    /\ micro = <<>>
    /\ tasks = EmptyBag
    /\ op = NoOp
    /\ wp \in {NewWorkerPlayer(SW, NoSrc, FALSE, o) : o \in BOOLEAN}
    /\ wk = NewWorker
    /\ wtasks = EmptyBag
    /\ toWorker = <<Msg("INIT", 0, NoSrc)>>
    /\ toMain = <<>>

\* both players are initialised and nothing of an earlier command is pending
BothReady ==
    /\ micro = <<>> /\ tasks = EmptyBag
    /\ ~pl[1].timer /\ pl[1].tvg = "live"
    /\ wk.isInitialized
    /\ toWorker = <<>> /\ toMain = <<>> /\ wtasks = EmptyBag

BothLoaded == pl[1].tvgTotal >= 1 /\ wp.totalFrame >= 1

BothStep(w, W, o) == Commit(w) /\ WCommit(W) /\ op' = o

BothLoad ==
    /\ BothReady /\ pl[1].loads = 0 /\ wp.called = 0
    /\ \E in \in LoadInputs :
         BothStep(Load(World, 1, in[1], in[2], 0),
                  Called(WLoad(WWorld, in[1], in[2])), Op("load", 1))

BothPlay ==
    /\ BothReady /\ BothLoaded /\ CanCall
    /\ BothStep([World EXCEPT !.pl[1] = Play(@)], Called(WPlay(WWorld)), Op("play", 1))

BothPause ==
    /\ BothReady /\ BothLoaded /\ CanCall
    /\ BothStep([World EXCEPT !.pl[1] = Pause(@)], Called(WPause(WWorld)), Op("pause", 1))

BothStop ==
    /\ BothReady /\ BothLoaded /\ CanCall
    /\ BothStep([World EXCEPT !.pl[1] = Stop(@)], Called(WStop(WWorld)), Op("stop", 1))

BothSeek(frame) ==
    /\ BothReady /\ BothLoaded /\ CanCall
    /\ BothStep([World EXCEPT !.pl[1] = Seek(@, frame)], Called(WSeek(WWorld, frame)),
                Op("seek", 1))

NextBoth ==
    \/ TimerInit(1)
    \/ \E c \in BagToSet(tasks) : TaskModule(c, TRUE)
    \/ MicroInitAfter
    \/ MicroLoadAfterInit
    \/ \E c \in BagToSet(tasks), ok \in BOOLEAN : TaskFetch(c, ok)
    \/ MicroLoadParsed
    \/ AnimLoop(1)
    \/ MicroAnimAfter
    \/ WorkerReceive
    \/ \E c \in BagToSet(wtasks) : WorkerModule(c, TRUE)
    \/ \E c \in BagToSet(wtasks), ok \in BOOLEAN : WorkerFetch(c, ok)
    \/ WorkerInterval
    \/ MainReceive
    \/ BothLoad
    \/ BothPlay
    \/ BothPause
    \/ BothStop
    \/ \E frame \in 0..MaxSeek : BothSeek(frame)

SpecBoth == InitBoth /\ [][NextBoth]_vars

\* C29: whenever both players have been given the same commands, starting
\* with a successful load, and nothing is pending on either side, the
\* in-process player and the worker-delegated player report the same
\* currentState.
C29_SameState ==
    (BothReady /\ BothLoaded) => pl[1].currentState = wp.currentState

\* C30: a loader starts a fetch only for a string source that does not parse
\* as JSON; a string that parses is inline data.  This holds when load()
\* of the in-process player parses its source and when the worker handles
\* a LOAD command.
Fetches(b) ==
    BagCardinality([c \in {d \in BagToSet(b) : d.k = "fetch"} |-> b[c]])

C31_NormalPasses ==
    /\ [](\A p \in Players :
            (pl[p].mode = Normal /\ ~pl[p].loop /\ Emitted(pl[p], "complete"))
            => /\ pl[p].currentState = Stopped
               /\ Cardinality({i \in 1..Len(pl[p].ev) :
                                   pl[p].ev[i] = "complete"}) = 1
               /\ Len(pl[p].legs) = (IF pl[p].count >= 1 THEN pl[p].count ELSE 1))
    /\ [][\A p \in Players :
            (op'.n = "animLoop" /\ op'.p = p /\ pl[p].currentState = Stopped)
            => ~Emitted(pl'[p], "frame")]_vars

\* C32: the step that resumes _animLoop after _update() requests the next
\* animation frame only if the engine accepted the frame; and whenever a
\* play() call returns with the player Playing, a tick of that player is
\* under way (requested or suspended), so that the clock runs.
C32_PlayRestartsTicking ==
    [][\A p \in Players :
          /\ (op'.n = "render" /\ op'.p = p /\ pl'[p].raf > pl[p].raf)
             => Head(micro).acc
          /\ (op'.n = "play" /\ op'.p = p /\ pl'[p].currentState = Playing)
             => Chains(World, p)' >= 1]_vars

\* C33: whenever no command and no response is in flight and the worker has
\* no load or initialisation under way, the worker-delegated player is
\* Playing if and only if the worker's animation loop is active.
C33_SidesAgree ==
    (wp.worker /\ toWorker = << >> /\ toMain = << >> /\ wtasks = EmptyBag)
    => (wp.currentState = Playing <=> wk.isPlaying)

\* C34: when the intermission delay of a player ends and the player is no
\* longer Playing (it was paused, stopped or sought during the delay), the
\* end of the delay does not make it Playing.
C34_PauseSurvivesIntermission ==
    [][\A p \in Players :
          (op'.n = "intermission" /\ op'.p = p /\ pl[p].currentState # Playing)
          => pl'[p].currentState # Playing]_vars

\* C35: whenever play() starts a playthrough of a Stopped player, the repeat
\* counter of the player has its initial value 1.
C35_BudgetPerPlaythrough ==
    [][\A p \in Players :
          ( /\ op'.n = "play" /\ op'.p = p
            /\ pl[p].currentState = Stopped
            /\ pl'[p].currentState \in {Playing, Frozen} )
          => pl'[p].counter = 1]_vars

\* The interval of firstUpdated() fires while the module is still loading:
\* this _init() call joins `while (!_module)` beside the calls already there.
\* One waiting poll is kept; a further one would do what it does.
TimerInitPending(p) ==
    /\ IdleScript
    /\ pl[p].timer
    /\ moduleRequested /\ ~moduleLoaded
    /\ Cont("init_wait", p, SW, NoSrc, "json", FALSE) \notin BagToSet(tasks)
    /\ \E res \in InitResults(p) :
         PlayerStep(InitStart(World, p, NoParent, res), Op("init", p))

\* the polls of the first player overlap with its load() and with the
\* initialisation of the other players
NextOverlap ==
    \/ NextShared
    \/ TimerInitPending(1)

SpecOverlap == InitShared /\ [][NextOverlap]_vars

\* Module() calls that have not settled
ModuleCalls(tk) ==
    BagCardinality([c \in {d \in BagToSet(tk) : d.k = "module"} |-> tk[c]])

\* C36: a player creates its engine animation instance at most once, however
\* many _init() calls of the interval and of load() overlap; and Module() is
\* called only while _moduleRequested is unset, which is set by the call and
\* never unset, so the module is requested at most once.
C36_CreatedOnce ==
    /\ [](\A p \in Players : pl[p].made <= 1)
    /\ [](ModuleCalls(tasks) <= 1)
    /\ [][/\ ModuleCalls(tasks') > ModuleCalls(tasks) => ~moduleRequested
          /\ moduleRequested => moduleRequested']_vars

\* player 1 has its instance while an _init() call of the same player is
\* still waiting in `while (!_module)`, and the module was requested
C36_Witness ==
    /\ pl[1].made = 1
    /\ moduleRequested
    /\ \E c \in BagToSet(tasks) : c.k = "init_wait" /\ c.p = 1

\* One worker-delegated Software player whose page calls load() with an
\* animation object, play(), pause() and stop(): the commands that start and
\* stop the worker's loop.
InitLoop ==
    /\ InitWorker
    /\ wp.renderer = SW /\ wp.src = NoSrc /\ ~wp.supportsOffscreenCanvas

NextLoop ==
    \/ WorkerReceive
    \/ \E c \in BagToSet(wtasks) : WorkerModule(c, TRUE)
    \/ WorkerInterval
    \/ WorkerAdvanceTime
    \/ MainReceive
    \/ WUserLoad /\ wp'.req = "object"
    \/ WUserPlay
    \/ WUserPause
    \/ WUserStop

SpecLoop == InitLoop /\ [][NextLoop]_vars

\* C37: the worker has at most one interval set, and one exactly while
\* _isPlaying; a PLAY command handled while the loop runs sets no interval
\* and leaves the start time alone; when PAUSE or STOP has been handled no
\* interval is set; and a tick posts a response only while the loop runs.
C37_OneInterval ==
    /\ [](wk.timers <= 1 /\ (wk.timers = 1 <=> wk.isPlaying))
    /\ [][(op'.n = "onmessage" /\ toWorker # << >>)
          => /\ (Head(toWorker).type = "PLAY" /\ wk.isPlaying)
                => (wk'.timers = wk.timers /\ wk'.sinceStart = wk.sinceStart)
             /\ Head(toWorker).type \in {"PAUSE", "STOP"}
                => (wk'.timers = 0 /\ ~wk'.isPlaying)]_vars
    /\ [][(op'.n = "tick" /\ toMain' # toMain) => wk.isPlaying]_vars

\* the second load of an autoplaying player has completed while the loop
\* started after the first one was running; the PLAY sent on its completion
\* has been handled and the loop runs on from its old start time
C37_Witness ==
    /\ op.n = "onmessage" /\ toWorker = << >>
    /\ wp.currentState = Playing /\ wp.done = 2
    /\ wk.isPlaying /\ wk.timers = 1 /\ wk.sinceStart > 0

\* C38: when a load of a player that is in Error succeeds (the load event is
\* emitted), the player leaves Error: it is Stopped, or Playing or Frozen if
\* it plays automatically.
C38_LoadRecoversFromError ==
    [][\A p \in Players :
          ( /\ op'.n = "loadBytes" /\ op'.p = p
            /\ pl[p].currentState = Error
            /\ Emitted(pl'[p], "load") )
          => \/ pl'[p].currentState = Stopped
             \/ pl[p].autoPlay /\ pl'[p].currentState \in {Playing, Frozen}]_vars

\* C39: a load never runs against a missing engine instance: the in-process
\* player hands bytes to the engine only when its instance has been created,
\* and a LOAD command that reaches the worker before its engine instance
\* exists is not answered with ERROR.
C39_InitGatesLoad ==
    [][/\ \A p \in Players :
            (op'.n = "loadBytes" /\ op'.p = p) => pl[p].tvg # "undef"
       /\ ( /\ op'.n = "onmessage" /\ toWorker # << >>
            /\ Head(toWorker).type = "LOAD"
            /\ ~(wk.isInitialized /\ wk.tvg) )
          => toMain' = toMain]_vars
====
